---- MODULE Spec2Model ----
(***************************************************************************)
(* Host-side OpenCL sessions of src/src/add.cpp (vector add) and           *)
(* src/src/rotate.cpp (image rotate): the handles main() holds, the order  *)
(* of the driver calls, the teardown, what is printed and the exit code.   *)
(* The driver is the environment: every call may fail, and a call on an    *)
(* invalid handle always fails.                                            *)
(***************************************************************************)
EXTENDS Integers, Sequences, FiniteSets, TLC

VARIABLES
  prog,      \* which executable runs: "add" or "rotate"
  pc,        \* position of main()
  h,         \* the handles main() holds, NULL or a live handle
  built,     \* the program object has a successfully built executable
  argsBound, \* every kernel argument slot has been set
  calls,     \* driver entry points called so far, in order
  released,  \* clRelease* calls so far, in order, by resource
  teardowns, \* how many times the teardown code has run
  karg,      \* scalar kernel arguments set with clSetKernelArg
  dispatch,  \* arguments of the clEnqueueNDRangeKernel call
  todo,      \* work-items of the enqueued kernel that have not run yet
  sched,     \* order the device picked for a large NDRange
  dev,       \* contents of the device buffers
  result,    \* host array the output buffer is read into
  printed,   \* values written to standard output
  exitCode,  \* exit status of the process (meaningful when pc = "exit")
  failed     \* stages that did not succeed in this run

vars == <<prog, pc, h, built, argsBound, karg, calls, released, teardowns,
          dispatch, todo, sched, dev, result, printed, exitCode, failed>>

(***************************************************************************)
(* Bounds and constants                                                    *)
(***************************************************************************)
\* add.cpp runs 1000 work-items; the model runs this many, in every order.
ArraySizeBound == 4
ARRAY_SIZE == ArraySizeBound

\* An NDRange of at most this many work-items runs in every order; a larger
\* one runs in one of the cyclic orders the device picks at enqueue time.
MaxAnyOrder == 6

NULL == 0
Live == 1
\* Content of storage nobody has written: float result[] on the stack, a
\* device buffer created without CL_MEM_COPY_HOST_PTR.
Uninit == -1
\* Values a read of unwritten storage may produce.
Garbage == {0, 7}

Resources == {"context", "queue", "program", "kernel", "in0", "in1", "out"}

\* size_t, scaled to 16 bits: (size_t)-1 is the largest value.
SizeTModulus == 65536
SizeT(x) == x % SizeTModulus
SizeofDeviceId == 8

(***************************************************************************)
(* Helpers                                                                 *)
(***************************************************************************)
Range(s) == {s[i] : i \in DOMAIN s}
Count(s, r) == Cardinality({i \in DOMAIN s : s[i] = r})
UninitIdx(s) == {i \in DOMAIN s : s[i] = Uninit}
\* What a read of array s yields when its unwritten cells hold g.
Resolve(s, g) == [i \in DOMAIN s |-> IF s[i] = Uninit THEN g[i] ELSE s[i]]
Fill(n, v) == [i \in 1..n |-> v]
NoDispatch == [dim |-> 0, global |-> <<>>, local |-> <<>>]

(***************************************************************************)
(* add.cpp: host data and kernel                                           *)
(***************************************************************************)
\* (float)i: exact for every |i| < 2^24, rounded to an even neighbour above.
ToFloat(i) == IF i < 2^24 /\ -i < 2^24 THEN i ELSE 2 * (i \div 2)

HostA(i) == ToFloat(i)
HostBOffByOne(i) == ToFloat(ARRAY_SIZE - i - 1)
HostB(i) == ToFloat(ARRAY_SIZE - i)

\* hello_kernel of add.cl, one work-item: result[gid] = a[gid] + b[gid].
\* A NULL buffer argument is a wild pointer: its reads yield ga, gb and a
\* write through it is lost.
hello_kernel(d, hd, gid, ga, gb) ==
  LET a == IF hd.in0 # NULL THEN d.in0[gid + 1] ELSE ga
      b == IF hd.in1 # NULL THEN d.in1[gid + 1] ELSE gb
  IN  IF hd.out # NULL
      THEN [d EXCEPT !.out = [d.out EXCEPT ![gid + 1] = ToFloat(a + b)]]
      ELSE d

(***************************************************************************)
(* add.cpp: Cleanup                                                        *)
(***************************************************************************)
ReleaseIf(hd, r) == IF hd[r] # 0 THEN <<r>> ELSE <<>>

CleanupContextFirst(hd) ==
  ReleaseIf(hd, "context") \o ReleaseIf(hd, "in0") \o ReleaseIf(hd, "in1")
    \o ReleaseIf(hd, "out") \o ReleaseIf(hd, "queue")
    \o ReleaseIf(hd, "kernel") \o ReleaseIf(hd, "program")

\* The clRelease* calls of Cleanup, in order.  The handles are passed by
\* value and never reset.
Cleanup(hd) ==
  ReleaseIf(hd, "in0") \o ReleaseIf(hd, "in1") \o ReleaseIf(hd, "out")
    \o ReleaseIf(hd, "queue") \o ReleaseIf(hd, "kernel")
    \o ReleaseIf(hd, "program") \o ReleaseIf(hd, "context")

(***************************************************************************)
(* add.cpp: main                                                           *)
(***************************************************************************)
\* CreateContext: first platform, then a GPU context on it.
AddCreateContext ==
  /\ prog = "add" /\ pc = "a_context"
  /\ \E platOk \in BOOLEAN, ctxOk \in BOOLEAN :
       IF ~platOk
       THEN /\ calls' = calls \o <<"clGetPlatformIDs">>
            /\ h' = [h EXCEPT !.context = NULL]
            /\ failed' = failed \cup {"platform"}
       ELSE /\ calls' = calls \o <<"clGetPlatformIDs", "clCreateContextFromType">>
            /\ h' = [h EXCEPT !.context = IF ctxOk THEN Live ELSE NULL]
            /\ failed' = IF ctxOk THEN failed ELSE failed \cup {"context"}
  /\ pc' = "a_queue"
  /\ UNCHANGED <<prog, karg, built, argsBound, released, teardowns, dispatch, todo,
                 sched, dev, result, printed, exitCode>>

\* What clGetContextInfo leaves in deviceBufferSize (initialised to -1): the
\* device list's size for a valid context; for an invalid one the call fails
\* and the variable is untouched or zeroed, as the driver chooses.
DeviceBufferSizes(ctx) ==
  IF ctx # NULL THEN {SizeT(SizeofDeviceId)} ELSE {SizeT(-1), SizeT(0)}

\* new cl_device_id[n] throws std::bad_alloc when the request cannot fit in
\* the address space.
AllocThrows(n) == n * SizeofDeviceId >= SizeTModulus \div 2

\* CreateCommandQueue: the errNum of both queries is ignored; an uncaught
\* bad_alloc ends the process through std::terminate (SIGABRT, status 134).
AddCreateCommandQueue ==
  /\ prog = "add" /\ pc = "a_queue"
  /\ \E sz \in DeviceBufferSizes(h.context), qOk \in BOOLEAN :
       LET q == qOk /\ h.context # NULL IN
       IF sz <= 0
       THEN /\ calls' = calls \o <<"clGetContextInfo">>
            /\ h' = [h EXCEPT !.queue = NULL]
            /\ failed' = failed \cup {"queue"}
            /\ pc' = "a_program"
            /\ UNCHANGED exitCode
       ELSE IF AllocThrows(sz \div SizeofDeviceId)
       THEN /\ calls' = calls \o <<"clGetContextInfo">>
            /\ failed' = failed \cup {"queue"}
            /\ pc' = "exit"
            /\ exitCode' = 134
            /\ UNCHANGED h
       ELSE /\ calls' = calls \o <<"clGetContextInfo", "clGetContextInfo",
                                   "clCreateCommandQueue">>
            /\ h' = [h EXCEPT !.queue = IF q THEN Live ELSE NULL]
            /\ failed' = IF q THEN failed ELSE failed \cup {"queue"}
            /\ pc' = "a_program"
            /\ UNCHANGED exitCode
  /\ UNCHANGED <<prog, karg, built, argsBound, released, teardowns, dispatch, todo,
                 sched, dev, result, printed>>

\* CreateProgram: the status of clBuildProgram is stored in errNum and never
\* read; the program object is returned whether or not it built.
AddCreateProgram ==
  /\ prog = "add" /\ pc = "a_program"
  /\ \E fileOk \in BOOLEAN, progOk \in BOOLEAN, buildOk \in BOOLEAN :
       LET p == progOk /\ h.context # NULL IN
       IF ~fileOk
       THEN /\ h' = [h EXCEPT !.program = NULL]
            /\ failed' = failed \cup {"source"}
            /\ UNCHANGED <<calls, built>>
       ELSE /\ calls' = calls \o <<"clCreateProgramWithSource", "clBuildProgram">>
            /\ h' = [h EXCEPT !.program = IF p THEN Live ELSE NULL]
            /\ built' = (p /\ buildOk)
            /\ failed' = IF p /\ buildOk THEN failed ELSE failed \cup {"compile"}
  /\ pc' = "a_kernel"
  /\ UNCHANGED <<prog, karg, argsBound, released, teardowns, dispatch, todo, sched,
                 dev, result, printed, exitCode>>

\* kernel = clCreateKernel(program, "hello_kernel", NULL), unconditionally.
AddCreateKernel ==
  /\ prog = "add" /\ pc = "a_kernel"
  /\ \E ok \in BOOLEAN :
       LET k == ok /\ h.program # NULL /\ built IN
       /\ h' = [h EXCEPT !.kernel = IF k THEN Live ELSE NULL]
       /\ failed' = IF k THEN failed ELSE failed \cup {"kernel"}
  /\ calls' = calls \o <<"clCreateKernel">>
  /\ pc' = "a_buffers"
  /\ UNCHANGED <<prog, karg, built, argsBound, released, teardowns, dispatch, todo,
                 sched, dev, result, printed, exitCode>>

\* CreateMemObjects returns true whatever clCreateBuffer returned.
CreateMemObjects(hd) == TRUE

\* The host arrays are filled, then the three buffers are created; main's
\* branch on a false return runs Cleanup and returns 1.
AddCreateMemObjects ==
  /\ prog = "add" /\ pc = "a_buffers"
  /\ \E ok0 \in BOOLEAN, ok1 \in BOOLEAN, ok2 \in BOOLEAN :
       LET m0 == ok0 /\ h.context # NULL
           m1 == ok1 /\ h.context # NULL
           m2 == ok2 /\ h.context # NULL
           hn == [h EXCEPT !.in0 = IF m0 THEN Live ELSE NULL,
                           !.in1 = IF m1 THEN Live ELSE NULL,
                           !.out = IF m2 THEN Live ELSE NULL]
       IN
       /\ h' = hn
       /\ dev' = [in0 |-> IF m0 THEN [i \in 1..ARRAY_SIZE |-> HostA(i - 1)] ELSE <<>>,
                  in1 |-> IF m1 THEN [i \in 1..ARRAY_SIZE |-> HostB(i - 1)] ELSE <<>>,
                  out |-> IF m2 THEN Fill(ARRAY_SIZE, Uninit) ELSE <<>>]
       /\ failed' = IF m0 /\ m1 /\ m2 THEN failed ELSE failed \cup {"buffer"}
       /\ IF CreateMemObjects(hn)
          THEN /\ pc' = "a_args"
               /\ UNCHANGED <<released, teardowns, exitCode>>
          ELSE /\ released' = released \o Cleanup(hn)
               /\ teardowns' = teardowns + 1
               /\ exitCode' = 1
               /\ pc' = "exit"
  /\ calls' = calls \o <<"clCreateBuffer", "clCreateBuffer", "clCreateBuffer">>
  /\ UNCHANGED <<prog, karg, built, argsBound, dispatch, todo, sched, result, printed>>

\* Three clSetKernelArg calls; errNum is accumulated and never read.
AddSetKernelArgs ==
  /\ prog = "add" /\ pc = "a_args"
  /\ \E ok \in BOOLEAN :
       LET b == ok /\ h.kernel # NULL IN
       /\ argsBound' = b
       /\ failed' = IF b THEN failed ELSE failed \cup {"args"}
  /\ calls' = calls \o <<"clSetKernelArg", "clSetKernelArg", "clSetKernelArg">>
  /\ pc' = "a_enqueue"
  /\ UNCHANGED <<prog, karg, h, built, released, teardowns, dispatch, todo, sched,
                 dev, result, printed, exitCode>>

\* The driver accepts an NDRange when the local size it reads divides the
\* global size in every dimension (a zero extent is rejected).
GeometryOk(dim, global, local) ==
  \A d \in 1..dim : local[d] > 0 /\ global[d] % local[d] = 0

\* clEnqueueNDRangeKernel(commandQueue, kernel, 1, NULL, {ARRAY_SIZE}, {1});
\* errNum is overwritten by the next call.
AddEnqueue ==
  /\ prog = "add" /\ pc = "a_enqueue"
  /\ \E ok \in BOOLEAN :
       LET g == <<ARRAY_SIZE>>
           l == <<1>>
           run == ok /\ h.queue # NULL /\ h.kernel # NULL /\ argsBound
                     /\ GeometryOk(1, g, l)
       IN
       /\ dispatch' = [dim |-> 1, global |-> g, local |-> l]
       /\ todo' = IF run THEN 0..(ARRAY_SIZE - 1) ELSE {}
       /\ failed' = IF run THEN failed ELSE failed \cup {"dispatch"}
  /\ calls' = calls \o <<"clEnqueueNDRangeKernel">>
  /\ pc' = "a_read"
  /\ UNCHANGED <<prog, karg, h, built, argsBound, released, teardowns, sched, dev,
                 result, printed, exitCode>>

\* Blocking clEnqueueReadBuffer on the in-order queue: it completes after the
\* kernel enqueued before it.  errNum is never read.
\* The blocking_read argument both programs pass to clEnqueueReadBuffer.
blocking_read_false == FALSE
blocking_read == TRUE

\* A blocking read returns when the read has executed, and on the in-order
\* queue that is after the kernel enqueued before it; a non-blocking one
\* returns at once.
ReadReturns == blocking_read => todo = {}

AddRead ==
  /\ prog = "add" /\ pc = "a_read" /\ ReadReturns
  /\ \E ok \in BOOLEAN :
       LET rd == ok /\ h.queue # NULL /\ h.out # NULL IN
       /\ IF rd
          THEN \E g \in [UninitIdx(dev.out) -> Garbage] :
                 result' = Resolve(dev.out, g)
          ELSE UNCHANGED result
       /\ failed' = IF rd THEN failed ELSE failed \cup {"read"}
  /\ calls' = calls \o <<"clEnqueueReadBuffer">>
  /\ pc' = "a_print"
  /\ UNCHANGED <<prog, karg, h, built, argsBound, released, teardowns, dispatch,
                 todo, sched, dev, printed, exitCode>>

\* The loop printing result[0..ARRAY_SIZE), reached on every path.
AddPrint ==
  /\ prog = "add" /\ pc = "a_print"
  /\ \E g \in [UninitIdx(result) -> Garbage] : printed' = Resolve(result, g)
  /\ pc' = "a_cleanup"
  /\ UNCHANGED <<prog, karg, h, built, argsBound, calls, released, teardowns,
                 dispatch, todo, sched, dev, result, exitCode, failed>>

\* Cleanup(...); return 0;
AddCleanup ==
  /\ prog = "add" /\ pc = "a_cleanup"
  /\ released' = released \o Cleanup(h)
  /\ teardowns' = teardowns + 1
  /\ exitCode' = 0
  /\ pc' = "exit"
  /\ UNCHANGED <<prog, karg, h, built, argsBound, calls, dispatch, todo, sched, dev,
                 result, printed, failed>>

(***************************************************************************)
(* rotate.cpp: constants, the rotation, the kernel                         *)
(***************************************************************************)
WIDTH == 6
HEIGHT == 6
IMAGE_SIZE == WIDTH * HEIGHT
\* SIN and COS are the floats 1.0 and 0.0.  Every operand of the rotation is
\* integer-valued and small, so the float arithmetic and the conversion of
\* its result to int are exact.
SIN == 1
COS == 0

NoArgs == [w |-> 0, h |-> 0, sin |-> 0, cos |-> 0]

\* int xpos = (j - xc) * cosTheta - (i - yc) * sinTheta + xc;
xpos(i, j, w, ht, s, c) == (j - w \div 2) * c - (i - ht \div 2) * s + w \div 2
\* int ypos = (j - xc) * sinTheta + (i - yc) * cosTheta + yc;
ypos(i, j, w, ht, s, c) == (j - w \div 2) * s + (i - ht \div 2) * c + ht \div 2

InImageOffByOne(x, y, w, ht) == x >= 0 /\ y >= 0 /\ x <= w /\ y < ht
\* if (xpos >= 0 && ypos >= 0 && xpos < w && ypos < h)
InImage(x, y, w, ht) == x >= 0 /\ y >= 0 /\ x < w /\ y < ht

\* One iteration of rotate()'s loop body, which is what one work-item of the
\* image_rotate kernel does for pixel (column j, row i) = work-item i*w + j:
\* the pixel is stored at its rotated position when that lies in the image,
\* and nothing is stored otherwise.
image_rotate(d, wi, a) ==
  LET i == wi \div a.w
      j == wi % a.w
      x == xpos(i, j, a.w, a.h, a.sin, a.cos)
      y == ypos(i, j, a.w, a.h, a.sin, a.cos)
  IN  IF InImage(x, y, a.w, a.h)
      THEN [d EXCEPT !.out = [d.out EXCEPT ![y * a.w + x + 1] = d.in0[i * a.w + j + 1]]]
      ELSE d

(***************************************************************************)
(* The device                                                              *)
(***************************************************************************)
WorkItems(g) == IF Len(g) = 0 THEN 0
                ELSE IF Len(g) = 1 THEN g[1] ELSE g[1] * g[2]

\* The work-items the device may run next.  OpenCL fixes no order: a small
\* NDRange runs in every order, a large one in the cyclic order sched chose
\* at enqueue time (any start, ascending or descending).
Eligible ==
  LET n == WorkItems(dispatch.global) IN
  IF n <= MaxAnyOrder THEN todo
  ELSE {(sched.start + sched.dir * (n - Cardinality(todo))) % n}

KernelStep ==
  /\ todo # {}
  /\ \E wi \in Eligible :
       /\ todo' = todo \ {wi}
       /\ IF prog = "add"
          THEN \E ga \in Garbage, gb \in Garbage :
                 dev' = hello_kernel(dev, h, wi, ga, gb)
          ELSE dev' = image_rotate(dev, wi, karg)
  /\ UNCHANGED <<prog, pc, h, built, argsBound, karg, calls, released,
                 teardowns, dispatch, sched, result, printed, exitCode, failed>>

(***************************************************************************)
(* rotate.cpp: main                                                        *)
(***************************************************************************)
NumPlatforms == 0..2

\* return <code>; straight out of main, with nothing released.
Return(code, stage) ==
  /\ pc' = "exit"
  /\ exitCode' = code
  /\ failed' = failed \cup {stage}

\* 1.1, 1.2: count the platforms, then fetch them; the last one is used.
RotGetPlatforms ==
  /\ prog = "rotate" /\ pc = "r_platform"
  /\ \E ok1 \in BOOLEAN, n \in NumPlatforms, ok2 \in BOOLEAN :
       IF ~ok1
       THEN /\ calls' = calls \o <<"clGetPlatformIDs">>
            /\ Return(1, "platform")
       ELSE IF n > 0 /\ ~ok2
       THEN /\ calls' = calls \o <<"clGetPlatformIDs", "clGetPlatformIDs">>
            /\ Return(-1, "platform")
       ELSE /\ calls' = calls \o (IF n > 0
                                  THEN <<"clGetPlatformIDs", "clGetPlatformIDs">>
                                  ELSE <<"clGetPlatformIDs">>)
            /\ pc' = "r_context"
            /\ UNCHANGED <<exitCode, failed>>
  /\ UNCHANGED <<prog, h, built, argsBound, karg, released, teardowns,
                 dispatch, todo, sched, dev, result, printed>>

\* 2.2: clCreateContextFromType.
RotCreateContext ==
  /\ prog = "rotate" /\ pc = "r_context"
  /\ \E ok \in BOOLEAN :
       IF ok
       THEN /\ h' = [h EXCEPT !.context = Live]
            /\ pc' = "r_devices"
            /\ UNCHANGED <<exitCode, failed>>
       ELSE /\ Return(1, "context")
            /\ UNCHANGED h
  /\ calls' = calls \o <<"clCreateContextFromType">>
  /\ UNCHANGED <<prog, built, argsBound, karg, released, teardowns, dispatch,
                 todo, sched, dev, result, printed>>

\* 3.1: size of the device list, malloc, the device list.
RotGetDevices ==
  /\ prog = "rotate" /\ pc = "r_devices"
  /\ \E ok1 \in BOOLEAN, mallocOk \in BOOLEAN, ok2 \in BOOLEAN :
       IF ~ok1 \/ ~mallocOk
       THEN /\ calls' = calls \o <<"clGetContextInfo">>
            /\ Return(1, "device")
       ELSE IF ~ok2
       THEN /\ calls' = calls \o <<"clGetContextInfo", "clGetContextInfo">>
            /\ Return(1, "device")
       ELSE /\ calls' = calls \o <<"clGetContextInfo", "clGetContextInfo">>
            /\ pc' = "r_program"
            /\ UNCHANGED <<exitCode, failed>>
  /\ UNCHANGED <<prog, h, built, argsBound, karg, released, teardowns,
                 dispatch, todo, sched, dev, result, printed>>

\* 4.1: clCreateProgramWithSource gets no errcode_ret, so the test of status
\* that follows reads the CL_SUCCESS of the previous call and never returns.
RotCreateProgram ==
  /\ prog = "rotate" /\ pc = "r_program"
  /\ \E fileOk \in BOOLEAN, progOk \in BOOLEAN :
       IF ~fileOk
       THEN /\ Return(1, "source")
            /\ UNCHANGED <<h, calls>>
       ELSE /\ h' = [h EXCEPT !.program = IF progOk THEN Live ELSE NULL]
            /\ calls' = calls \o <<"clCreateProgramWithSource">>
            /\ failed' = IF progOk THEN failed ELSE failed \cup {"compile"}
            /\ pc' = "r_build"
            /\ UNCHANGED exitCode
  /\ UNCHANGED <<prog, built, argsBound, karg, released, teardowns, dispatch,
                 todo, sched, dev, result, printed>>

\* 4.2: clBuildProgram.
RotBuild ==
  /\ prog = "rotate" /\ pc = "r_build"
  /\ \E ok \in BOOLEAN :
       IF ok /\ h.program # NULL
       THEN /\ built' = TRUE
            /\ pc' = "r_kernel"
            /\ UNCHANGED <<exitCode, failed>>
       ELSE /\ Return(1, "compile")
            /\ UNCHANGED built
  /\ calls' = calls \o <<"clBuildProgram">>
  /\ UNCHANGED <<prog, h, argsBound, karg, released, teardowns, dispatch,
                 todo, sched, dev, result, printed>>

\* 4.3: clCreateKernel(program, "image_rotate", &status).
RotCreateKernel ==
  /\ prog = "rotate" /\ pc = "r_kernel"
  /\ \E ok \in BOOLEAN :
       IF ok /\ h.program # NULL /\ built
       THEN /\ h' = [h EXCEPT !.kernel = Live]
            /\ pc' = "r_buffers"
            /\ UNCHANGED <<exitCode, failed>>
       ELSE /\ Return(1, "kernel")
            /\ UNCHANGED h
  /\ calls' = calls \o <<"clCreateKernel">>
  /\ UNCHANGED <<prog, built, argsBound, karg, released, teardowns, dispatch,
                 todo, sched, dev, result, printed>>

\* memset(outbuffer, 0, WIDTH * WIDTH * sizeof(int)) on WIDTH * HEIGHT ints.
ZeroedOutbuffer == [i \in 1..IMAGE_SIZE |-> IF i <= WIDTH * WIDTH THEN 0 ELSE Uninit]
\* inbuffer[i] = i
Inbuffer == [i \in 1..IMAGE_SIZE |-> i - 1]

\* 4.4: the host arrays; the input buffer, copied from inbuffer; the output
\* buffer, created with no host pointer, so with unwritten content.
RotCreateBuffers ==
  /\ prog = "rotate" /\ pc = "r_buffers"
  /\ result' = ZeroedOutbuffer
  /\ \E okIn \in BOOLEAN, okOut \in BOOLEAN :
       IF ~okIn
       THEN /\ calls' = calls \o <<"clCreateBuffer">>
            /\ Return(1, "buffer")
            /\ UNCHANGED <<h, dev>>
       ELSE IF ~okOut
       THEN /\ calls' = calls \o <<"clCreateBuffer", "clCreateBuffer">>
            /\ h' = [h EXCEPT !.in0 = Live]
            /\ dev' = [dev EXCEPT !.in0 = Inbuffer]
            /\ Return(1, "buffer")
       ELSE /\ calls' = calls \o <<"clCreateBuffer", "clCreateBuffer">>
            /\ h' = [h EXCEPT !.in0 = Live, !.out = Live]
            /\ dev' = [dev EXCEPT !.in0 = Inbuffer,
                                  !.out = Fill(IMAGE_SIZE, Uninit)]
            /\ pc' = "r_args"
            /\ UNCHANGED <<exitCode, failed>>
  /\ UNCHANGED <<prog, built, argsBound, karg, released, teardowns, dispatch,
                 todo, sched, printed>>

\* 4.5: six clSetKernelArg calls, each followed by a test of status; n of
\* them succeed before one fails.
RotSetKernelArgs ==
  /\ prog = "rotate" /\ pc = "r_args"
  /\ \E n \in 0..6 :
       /\ calls' = calls \o [k \in 1..(IF n < 6 THEN n + 1 ELSE 6) |-> "clSetKernelArg"]
       /\ IF n = 6 /\ h.kernel # NULL
          THEN /\ argsBound' = TRUE
               /\ karg' = [w |-> WIDTH, h |-> HEIGHT, sin |-> SIN, cos |-> COS]
               /\ pc' = "r_queue"
               /\ UNCHANGED <<exitCode, failed>>
          ELSE /\ Return(1, "args")
               /\ UNCHANGED <<argsBound, karg>>
  /\ UNCHANGED <<prog, h, built, released, teardowns, dispatch, todo, sched,
                 dev, result, printed>>

\* 4.6: clCreateCommandQueue.
RotCreateQueue ==
  /\ prog = "rotate" /\ pc = "r_queue"
  /\ \E ok \in BOOLEAN :
       IF ok
       THEN /\ h' = [h EXCEPT !.queue = Live]
            /\ pc' = "r_enqueue"
            /\ UNCHANGED <<exitCode, failed>>
       ELSE /\ Return(1, "queue")
            /\ UNCHANGED h
  /\ calls' = calls \o <<"clCreateCommandQueue">>
  /\ UNCHANGED <<prog, built, argsBound, karg, released, teardowns, dispatch,
                 todo, sched, dev, result, printed>>

\* What the driver may find in the size_t after localThreads.
GarbageExtents == {0, 1, 2, 4}

\* 4.7: work_dim = 2, globalThreads = {WIDTH, HEIGHT}, and the address of the
\* single size_t localThreads = 1 as local_work_size: the driver reads a
\* second extent from the memory after it.
RotEnqueue ==
  /\ prog = "rotate" /\ pc = "r_enqueue"
  /\ \E ok \in BOOLEAN, ge \in GarbageExtents,
        start \in 0..(IMAGE_SIZE - 1), dir \in {1, IMAGE_SIZE - 1} :
       LET g == <<WIDTH, HEIGHT>>
           l == <<1>>
           run == ok /\ h.queue # NULL /\ h.kernel # NULL /\ argsBound
                     /\ GeometryOk(2, g, l \o <<ge>>)
       IN
       /\ dispatch' = [dim |-> 2, global |-> g, local |-> l]
       /\ IF run
          THEN /\ todo' = 0..(IMAGE_SIZE - 1)
               /\ sched' = [start |-> start, dir |-> dir]
               /\ pc' = "r_finish"
               /\ UNCHANGED <<exitCode, failed>>
          ELSE /\ Return(1, "dispatch")
               /\ UNCHANGED <<todo, sched>>
  /\ calls' = calls \o <<"clEnqueueNDRangeKernel">>
  /\ UNCHANGED <<prog, h, built, argsBound, karg, released, teardowns, dev,
                 result, printed>>

\* 4.7.1: clFinish returns when the enqueued kernel has completed.
RotFinish ==
  /\ prog = "rotate" /\ pc = "r_finish" /\ todo = {}
  /\ \E ok \in BOOLEAN :
       IF ok
       THEN /\ pc' = "r_read"
            /\ UNCHANGED <<exitCode, failed>>
       ELSE Return(1, "finish")
  /\ calls' = calls \o <<"clFinish">>
  /\ UNCHANGED <<prog, h, built, argsBound, karg, released, teardowns,
                 dispatch, todo, sched, dev, result, printed>>

\* 4.8: blocking clEnqueueReadBuffer of the whole output buffer.
RotRead ==
  /\ prog = "rotate" /\ pc = "r_read" /\ ReadReturns
  /\ \E ok \in BOOLEAN :
       IF ok /\ h.queue # NULL /\ h.out # NULL
       THEN /\ \E g \in [UninitIdx(dev.out) -> Garbage] :
                 result' = Resolve(dev.out, g)
            /\ pc' = "r_print"
            /\ UNCHANGED <<exitCode, failed>>
       ELSE /\ Return(1, "read")
            /\ UNCHANGED result
  /\ calls' = calls \o <<"clEnqueueReadBuffer">>
  /\ UNCHANGED <<prog, h, built, argsBound, karg, released, teardowns,
                 dispatch, todo, sched, dev, printed>>

\* The loops printing outbuffer row by row.
RotPrint ==
  /\ prog = "rotate" /\ pc = "r_print"
  /\ \E g \in [UninitIdx(result) -> Garbage] : printed' = Resolve(result, g)
  /\ pc' = "r_cleanup"
  /\ UNCHANGED <<prog, h, built, argsBound, karg, calls, released, teardowns,
                 dispatch, todo, sched, dev, result, exitCode, failed>>

\* 4.9: the five clRelease* calls, unconditional; inputBuffer has none.
RotateTeardown(hd) == <<"queue", "out", "kernel", "program", "context">>

RotCleanup ==
  /\ prog = "rotate" /\ pc = "r_cleanup"
  /\ released' = released \o RotateTeardown(h)
  /\ teardowns' = teardowns + 1
  /\ exitCode' = 0
  /\ pc' = "exit"
  /\ UNCHANGED <<prog, h, built, argsBound, karg, calls, dispatch, todo,
                 sched, dev, result, printed, failed>>

(***************************************************************************)
(* The two executables                                                     *)
(***************************************************************************)
NoHandles == [r \in Resources |-> NULL]

Init ==
  /\ prog \in {"add", "rotate"}
  /\ pc = (IF prog = "add" THEN "a_context" ELSE "r_platform")
  /\ h = NoHandles
  /\ built = FALSE
  /\ argsBound = FALSE
  /\ karg = NoArgs
  /\ calls = <<>>
  /\ released = <<>>
  /\ teardowns = 0
  /\ dispatch = NoDispatch
  /\ todo = {}
  /\ sched = [start |-> 0, dir |-> 1]
  /\ dev = [in0 |-> <<>>, in1 |-> <<>>, out |-> <<>>]
  /\ result = (IF prog = "add" THEN Fill(ARRAY_SIZE, Uninit) ELSE <<>>)
  /\ printed = <<>>
  /\ exitCode = 0
  /\ failed = {}

Next ==
  \/ AddCreateContext \/ AddCreateCommandQueue \/ AddCreateProgram
  \/ AddCreateKernel \/ AddCreateMemObjects \/ AddSetKernelArgs
  \/ AddEnqueue \/ AddRead \/ AddPrint \/ AddCleanup
  \/ RotGetPlatforms \/ RotCreateContext \/ RotGetDevices
  \/ RotCreateProgram \/ RotBuild \/ RotCreateKernel \/ RotCreateBuffers
  \/ RotSetKernelArgs \/ RotCreateQueue \/ RotEnqueue \/ RotFinish
  \/ RotRead \/ RotPrint \/ RotCleanup
  \/ KernelStep

Spec == Init /\ [][Next]_vars

(***************************************************************************)
(* Cleanup on its own: called up to MaxTeardowns times in a row on the     *)
(* handles of one session, from every set of handles main can hold.        *)
(***************************************************************************)
MaxTeardowns == 2

\* Handle sets the driver can produce: every object needs the context, a
\* kernel needs its program.
Consistent(hd) ==
  /\ \A r \in Resources : hd[r] # NULL => hd.context # NULL
  /\ hd.kernel # NULL => hd.program # NULL

InitCleanup ==
  /\ prog = "add"
  /\ pc = "a_cleanup"
  /\ h \in {hd \in [Resources -> {NULL, Live}] : Consistent(hd)}
  /\ built = (h.kernel # NULL)
  /\ argsBound = FALSE
  /\ karg = NoArgs
  /\ calls = <<>>
  /\ released = <<>>
  /\ teardowns = 0
  /\ dispatch = NoDispatch
  /\ todo = {}
  /\ sched = [start |-> 0, dir |-> 1]
  /\ dev = [in0 |-> <<>>, in1 |-> <<>>, out |-> <<>>]
  /\ result = Fill(ARRAY_SIZE, Uninit)
  /\ printed = <<>>
  /\ exitCode = 0
  /\ failed = {}

CleanupCall ==
  /\ teardowns < MaxTeardowns
  /\ released' = released \o Cleanup(h)
  /\ teardowns' = teardowns + 1
  /\ UNCHANGED <<prog, pc, h, built, argsBound, karg, calls, dispatch, todo,
                 sched, dev, result, printed, exitCode, failed>>

NextCleanup == CleanupCall

SpecCleanup == InitCleanup /\ [][NextCleanup]_vars

(***************************************************************************)
(* Properties                                                              *)
(***************************************************************************)
Buffers == {"in0", "in1", "out"}

\* C1: when the process has exited, on whatever path, every resource that
\* was acquired has been released exactly once.
C1_AllReleasedAtExit ==
  pc = "exit" => \A r \in Resources : h[r] # NULL => Count(released, r) = 1

\* C2 as stated: buffers, kernel and program are released before the command
\* queue, the command queue before the context, and the context last.
C2_ReverseOfCreation ==
  \A i \in DOMAIN released, j \in DOMAIN released :
    /\ (released[i] = "queue" /\ released[j] \in Buffers \cup {"kernel", "program"})
         => j < i
    /\ (released[i] = "context" /\ released[j] = "queue") => j < i
    /\ released[i] = "context" => i = Len(released)

\* C2 amended: the context is the last resource released, after every buffer,
\* the kernel, the program and the command queue that teardown releases; the
\* command queue is released before the kernel and the program.
C2_ContextLast ==
  \A i \in DOMAIN released :
    /\ released[i] = "context" => i = Len(released)
    /\ released[i] = "queue" =>
         \A j \in DOMAIN released :
           released[j] \in {"kernel", "program", "context"} => i < j

C2_Witness ==
  /\ pc = "exit" /\ teardowns = 1
  /\ {"queue", "kernel", "program", "context"} \subseteq Range(released)
  /\ released[Len(released)] = "context"

\* C3: a second Cleanup on the same handles releases nothing again.
C3_TeardownIdempotent ==
  teardowns >= 2 => \A r \in Resources : Count(released, r) <= 1

\* C4: once teardown has run, the resources released are exactly those whose
\* handle is not the NULL sentinel.
C4_ReleasesExactlyAcquired ==
  teardowns >= 1 => \A r \in Resources : (h[r] # NULL) <=> (r \in Range(released))

\* C5: kernel creation is attempted only on a program whose build succeeded.
C5_NoKernelFromFailedBuild ==
  "clCreateKernel" \in Range(calls) => built

\* C6: result values are printed only in runs where every stage succeeded.
C6_NoResultsOnFailure ==
  printed # <<>> => failed = {}

\* C7: the exit code is 0 exactly when every stage succeeded, and 1 when any
\* stage failed.
C7_ExitCode ==
  pc = "exit" => /\ (exitCode = 0 <=> failed = {})
                 /\ (failed # {} => exitCode = 1)

\* C8: in a run of add where every stage succeeded, the array read back holds
\* ARRAY_SIZE in every cell, whatever order the work-items ran in.
C8_VectorAdd ==
  (prog = "add" /\ failed = {} /\ pc \in {"a_print", "a_cleanup", "exit"})
    => /\ Len(result) = ARRAY_SIZE
       /\ \A i \in 1..ARRAY_SIZE : result[i] = ARRAY_SIZE

C8_Witness ==
  /\ prog = "add" /\ pc = "exit" /\ failed = {} /\ exitCode = 0
  /\ printed = Fill(ARRAY_SIZE, ARRAY_SIZE)

\* The source pixels (row i, column j) whose rotated position is cell (x, y).
SourcesOf(x, y) ==
  {p \in (0..(HEIGHT - 1)) \X (0..(WIDTH - 1)) :
     /\ xpos(p[1], p[2], WIDTH, HEIGHT, SIN, COS) = x
     /\ ypos(p[1], p[2], WIDTH, HEIGHT, SIN, COS) = y}

\* C9: in the result rotate reads back, a cell some source pixel maps to
\* holds that pixel and every other cell holds zero.
C9_RotateResult ==
  (prog = "rotate" /\ pc \in {"r_print", "r_cleanup"}) =>
    \A y \in 0..(HEIGHT - 1), x \in 0..(WIDTH - 1) :
      LET src == SourcesOf(x, y) IN
      IF src = {}
      THEN result[y * WIDTH + x + 1] = 0
      ELSE \E p \in src : result[y * WIDTH + x + 1] = p[1] * WIDTH + p[2]

\* C10: every dispatch passes one local extent per dimension, each dividing
\* the global extent of its dimension.
C10_LocalWorkSize ==
  dispatch.dim > 0 =>
    /\ Len(dispatch.local) = dispatch.dim
    /\ \A d \in 1..dispatch.dim :
         dispatch.local[d] > 0 /\ dispatch.global[d] % dispatch.local[d] = 0

\* Some call of a is followed by a call of b, and that by a call of c.
InOrder(a, b, c) ==
  \E i \in DOMAIN calls, k \in DOMAIN calls, j \in DOMAIN calls :
    i < k /\ k < j /\ calls[i] = a /\ calls[k] = b /\ calls[j] = c

\* C11 as stated: whenever the output buffer has been read back, clFinish
\* was called after the kernel was enqueued and before the read.
C11_FinishBeforeRead ==
  "clEnqueueReadBuffer" \in Range(calls) =>
    InOrder("clEnqueueNDRangeKernel", "clFinish", "clEnqueueReadBuffer")

\* C11 amended: the read-back is called after the kernel is enqueued and has
\* returned only when no work-item of that kernel is left to run; rotate
\* calls clFinish in between, add calls no clFinish and relies on the
\* blocking read.
C11_ReadAfterKernel ==
  "clEnqueueReadBuffer" \in Range(calls) =>
    /\ todo = {}
    /\ \E i \in DOMAIN calls, j \in DOMAIN calls :
         i < j /\ calls[i] = "clEnqueueNDRangeKernel"
               /\ calls[j] = "clEnqueueReadBuffer"
    /\ prog = "rotate" =>
         InOrder("clEnqueueNDRangeKernel", "clFinish", "clEnqueueReadBuffer")
    /\ prog = "add" => "clFinish" \notin Range(calls)

C11_Witness ==
  /\ prog = "add" /\ pc = "a_print" /\ failed = {}
  /\ "clEnqueueReadBuffer" \in Range(calls)
  /\ result = Fill(ARRAY_SIZE, ARRAY_SIZE)

(***************************************************************************)
(* rotate() on its own: every image size up to MaxWidth x MaxHeight, every *)
(* quarter turn, the pixels processed in every order.                      *)
(***************************************************************************)
MaxWidth == 3
MaxHeight == 2

\* (sinTheta, cosTheta) of the rotations by 0, 90, 180 and 270 degrees.
QuarterTurns == {<<0, 1>>, <<1, 0>>, <<0, -1>>, <<-1, 0>>}

\* inbuf holds a different value in every pixel and outbuf is unwritten.
InitRotate ==
  /\ prog = "rotate"
  /\ pc = "r_finish"
  /\ \E w \in 0..MaxWidth, ht \in 0..MaxHeight, t \in QuarterTurns :
       /\ karg = [w |-> w, h |-> ht, sin |-> t[1], cos |-> t[2]]
       /\ dispatch = [dim |-> 2, global |-> <<w, ht>>, local |-> <<1>>]
       /\ todo = 0..(w * ht - 1)
       /\ dev = [in0 |-> [i \in 1..(w * ht) |-> i - 1], in1 |-> <<>>,
                 out |-> Fill(w * ht, Uninit)]
  /\ h = [NoHandles EXCEPT !.in0 = Live, !.out = Live]
  /\ built = TRUE
  /\ argsBound = TRUE
  /\ calls = <<>>
  /\ released = <<>>
  /\ teardowns = 0
  /\ sched = [start |-> 0, dir |-> 1]
  /\ result = <<>>
  /\ printed = <<>>
  /\ exitCode = 0
  /\ failed = {}

\* One iteration of the loop body, for any pixel not processed yet.
RotateStep ==
  /\ todo # {}
  /\ \E wi \in todo :
       /\ todo' = todo \ {wi}
       /\ dev' = image_rotate(dev, wi, karg)
  /\ UNCHANGED <<prog, pc, h, built, argsBound, karg, calls, released,
                 teardowns, dispatch, sched, result, printed, exitCode, failed>>

NextRotate == RotateStep

SpecRotate == InitRotate /\ [][NextRotate]_vars

Pixels == 0..(karg.w * karg.h - 1)
\* Pixel wi is stored (its rotated position lies in the image), and where.
Stored(wi) ==
  InImage(xpos(wi \div karg.w, wi % karg.w, karg.w, karg.h, karg.sin, karg.cos),
          ypos(wi \div karg.w, wi % karg.w, karg.w, karg.h, karg.sin, karg.cos),
          karg.w, karg.h)
DestIndex(wi) ==
  ypos(wi \div karg.w, wi % karg.w, karg.w, karg.h, karg.sin, karg.cos) * karg.w
    + xpos(wi \div karg.w, wi % karg.w, karg.w, karg.h, karg.sin, karg.cos)

\* C12: every store of rotate goes to an index in [0, w*h), no two pixels are
\* stored in the same cell, and the output buffer depends only on which
\* pixels have been processed, not on their order: each cell holds the one
\* processed pixel stored there, or is unwritten.
C12_RotateWrites ==
  /\ \A wi \in Pixels : Stored(wi) => DestIndex(wi) \in Pixels
  /\ \A p \in Pixels, q \in Pixels :
       (p # q /\ Stored(p) /\ Stored(q)) => DestIndex(p) # DestIndex(q)
  /\ Len(dev.out) = karg.w * karg.h
  /\ \A k \in Pixels :
       LET src == {wi \in Pixels \ todo : Stored(wi) /\ DestIndex(wi) = k} IN
       dev.out[k + 1] = IF src = {} THEN Uninit
                        ELSE dev.in0[(CHOOSE wi \in src : TRUE) + 1]

\* A finished 90-degree rotation of a non-square image, with pixels stored
\* and pixels dropped.
C12_Witness ==
  /\ todo = {} /\ karg.w = MaxWidth /\ karg.h = MaxHeight /\ karg.sin = 1 /\ karg.cos = 0
  /\ \E p \in Pixels : Stored(p) /\ dev.out[DestIndex(p) + 1] = p
  /\ \E p \in Pixels : ~Stored(p)
  /\ \E k \in Pixels : dev.out[k + 1] = Uninit

====
